---- MODULE Spec2Model ----
(***************************************************************************)
(* A model of tfsdk.State (src/tfsdk/state.go): a typed value tree (Raw)   *)
(* bound to a Schema, read with Get and GetAttribute and written with      *)
(* Set, SetAttribute and RemoveResource.                                   *)
(*                                                                         *)
(* Spec is one caller making one call after another.  SpecPair is the      *)
(* same over a schema whose nested object has two attributes.  SpecReader  *)
(* follows the references to the tree while a reader holds a copy of the   *)
(* State, SpecWriters two callers of SetAttribute that nothing serializes. *)
(*                                                                         *)
(* The State's collaborators that are not part of state.go are modelled    *)
(* by what the facade needs of them:                                       *)
(*   - tftypes.Value / NewValue / WalkAttributePath / Transform: the wire  *)
(*     level tree, its read-only walk and its functional transform;        *)
(*   - attr.Type / attr.Value: ValueFromTerraform, ToTerraformValue and    *)
(*     the optional Validate hook (attr.TypeWithValidate);                 *)
(*   - reflect.FromValue and ValueAs (reflect.Into): host value <-> value. *)
(* The outcome of a user-supplied hook (Validate, a custom type's          *)
(* ValueFromTerraform / ToTerraformValue) is an input of the call.         *)
(***************************************************************************)
EXTENDS Integers, Sequences, FiniteSets, TLC

VARIABLES
  Raw,      \* State.Raw: the wire-level tree (tftypes.Value)
  Schema,   \* State.Schema: attribute name -> attr.Type
  op,       \* the last operation called on the State
  arg,      \* its arguments and the outcomes of the hooks it invoked
  prev,     \* Raw before the last operation
  diags,    \* the diag.Diagnostics the last operation returned
  target,   \* the caller's target after the last read
  trace,    \* the collaborators' hooks the last operation invoked, in order
  cells,    \* the trees in memory that a reference points to, by address
  ref,      \* the address State.Raw refers to
  reader,   \* a reader's copy of the State: the reference it holds
  writers,  \* the SetAttribute calls in progress on the State, by caller
  wrote     \* the callers that have assigned State.Raw, in order

vars == <<Raw, Schema, op, arg, prev, diags, target, trace,
          cells, ref, reader, writers, wrote>>

\* The variables of the references and of the calls in progress, which the
\* specifications of one caller at a time leave alone.
shared == <<cells, ref, reader, writers, wrote>>

\* Host strings are 1..MaxStr.
MaxStr == 1

Strs == 1..MaxStr

----------------------------------------------------------------------------
(* Attribute types (attr.Type).                                            *)

\* types.StringType: no Validate hook.
StringType == [k |-> "String", validate |-> FALSE]

\* A custom string type implementing attr.TypeWithValidate (such as
\* testtypes.StringTypeWithValidateError / ...Warning).
StringTypeWithValidate == [k |-> "String", validate |-> TRUE]

\* types.ObjectType{AttrTypes: attrs}; order is the struct field order.
ObjectType(attrs, order) ==
  [k |-> "Object", validate |-> FALSE, attrs |-> attrs, order |-> order]

\* The Schema of the modelled State: a string attribute whose type has a
\* Validate hook, and a nested object holding a plain string.
TestSchema ==
  [name |-> StringTypeWithValidate,
   obj  |-> ObjectType([inner |-> StringType], <<"inner">>)]

SchemaOrder == <<"name", "obj">>

\* Schema.AttributeType(): the object type of the whole document.
SchemaAttributeType(schema) == ObjectType(schema, SchemaOrder)

\* attr.Type.TerraformType: the wire-level type of an attribute type, by
\* name: tftypes.String, or tftypes.Object with the attribute names.
TerraformType(t) ==
  IF t.k = "Object"
    THEN [k |-> "Object", attrs |-> DOMAIN t.attrs]
    ELSE [k |-> "String"]

\* Schema.TerraformType.
SchemaTerraformType(schema) == TerraformType(SchemaAttributeType(schema))

----------------------------------------------------------------------------
(* Wire-level values (tftypes.Value): [ty, st, v], st one of null,         *)
(* unknown, known; v is a string, or a map of child values.                *)

\* The second argument of tftypes.NewValue: nil, tftypes.UnknownValue or a
\* payload.
NilPayload == [st |-> "null"]
UnknownPayload == [st |-> "unknown"]
Payload(v) == [st |-> "known", v |-> v]

Zero(ty) == IF ty.k = "Object" THEN <<>> ELSE 0

\* tftypes.NewValue(ty, payload).
NewValue(ty, pl) ==
  [ty |-> ty, st |-> pl.st, v |-> IF pl.st = "known" THEN pl.v ELSE Zero(ty)]

IsNull(val) == val.st = "null"

\* The wire values of a string attribute.
StringValues ==
  {NewValue([k |-> "String"], NilPayload), NewValue([k |-> "String"], UnknownPayload)}
    \cup {NewValue([k |-> "String"], Payload(s)) : s \in Strs}

\* The wire values of the nested object attribute.
ObjValues ==
  LET ty == TerraformType(TestSchema.obj)
  IN  {NewValue(ty, NilPayload), NewValue(ty, UnknownPayload)}
        \cup {NewValue(ty, Payload([inner |-> i])) : i \in StringValues}

\* The trees a State is constructed with: the null document, or a known
\* document whose attributes hold any value of their type.
Trees ==
  LET ty == SchemaTerraformType(TestSchema)
  IN  {NewValue(ty, NilPayload)}
        \cup {NewValue(ty, Payload([name |-> n, obj |-> o])) :
                n \in StringValues, o \in ObjValues}

----------------------------------------------------------------------------
(* Attribute paths (tftypes.AttributePath): sequences of attribute names.  *)

Paths == {<<"name">>, <<"obj">>, <<"obj", "inner">>, <<"nosuch">>}

IsPrefix(p, q) == Len(p) <= Len(q) /\ SubSeq(q, 1, Len(p)) = p

\* Schema.AttributeTypeAtPath: the attribute type the schema declares at
\* path, or an error when a step names no attribute.
RECURSIVE TypeAtPath(_, _, _)
TypeAtPath(t, path, i) ==
  IF i > Len(path) THEN [ok |-> TRUE, type |-> t]
  ELSE IF t.k = "Object" /\ path[i] \in DOMAIN t.attrs
    THEN TypeAtPath(t.attrs[path[i]], path, i + 1)
    ELSE [ok |-> FALSE]

AttributeTypeAtPath(schema, path) ==
  TypeAtPath(SchemaAttributeType(schema), path, 1)

\* tftypes.WalkAttributePath on a value: each step needs a known, non-null
\* object holding the attribute.
RECURSIVE WalkAttributePath(_, _, _)
WalkAttributePath(val, path, i) ==
  IF i > Len(path) THEN [ok |-> TRUE, val |-> val]
  ELSE IF val.st = "known" /\ val.ty.k = "Object" /\ path[i] \in DOMAIN val.v
    THEN WalkAttributePath(val.v[path[i]], path, i + 1)
    ELSE [ok |-> FALSE]

\* State.terraformValueAtPath.
terraformValueAtPath(raw, path) == WalkAttributePath(raw, path, 1)

----------------------------------------------------------------------------
(* Diagnostics (diag.Diagnostics): a sequence of [sev, attributed, path,   *)
(* summary, detail].                                                       *)

\* diag.NewAttributeErrorDiagnostic / NewAttributeWarningDiagnostic.
AttributeDiagnostic(sev, path, summary, detail) ==
  [sev |-> sev, attributed |-> TRUE, path |-> path,
   summary |-> summary, detail |-> detail]

\* diag.NewErrorDiagnostic / NewWarningDiagnostic: no path.
Diagnostic(sev, summary, detail) ==
  [sev |-> sev, attributed |-> FALSE, path |-> <<>>,
   summary |-> summary, detail |-> detail]

\* Diagnostics.HasError.
HasError(ds) == \E i \in 1..Len(ds) : ds[i].sev = "Error"

Errors(ds) == {i \in 1..Len(ds) : ds[i].sev = "Error"}

\* What one call of a Validate hook reports: nothing, a Warning, an Error,
\* or a Warning and then an Error.
Verdicts == {<<>>, <<"Warning">>, <<"Error">>, <<"Warning", "Error">>}

\* attr.TypeWithValidate.Validate(ctx, value, path): the hook's verdict as
\* diagnostics attributed to path.
Validate(vd, path) ==
  [i \in 1..Len(vd) |->
     AttributeDiagnostic(vd[i], path, "Validate", "validate")]

\* The verdicts a call may draw for a type: none for a type without the hook.
VerdictsOf(t) == IF t.validate THEN Verdicts ELSE {<<>>}

\* Whether a conversion hook of the type may fail: only a custom type's.
OutcomesOf(t) == IF t.validate THEN BOOLEAN ELSE {TRUE}

Failed(vd) == \E i \in 1..Len(vd) : vd[i] = "Error"

\* What the hooks that reflect.Into runs while it populates the target of a
\* read report: nothing, or a Warning.  Only a custom type has such hooks.
IntoVerdictsOf(t) == IF t.validate THEN {<<>>, <<"Warning">>} ELSE {<<>>}

\* The hook outcomes of one read at an attribute of type t: the verdict of
\* Validate, then whether ValueFromTerraform succeeds, then what the hooks
\* run by the conversion into the target report.  A hook that runs after a
\* failed one is not reached and is given its default outcome.
ReadHooks(t) ==
  {h \in [vd : VerdictsOf(t), convOk : OutcomesOf(t), asVd : IntoVerdictsOf(t)] :
     /\ Failed(h.vd) => h.convOk
     /\ (Failed(h.vd) \/ ~h.convOk) => h.asVd = <<>>}

\* The hook outcomes of one write at an attribute of type t: the verdict of
\* the Validate that FromValue runs, whether ToTerraformValue succeeds, the
\* verdict of the Validate that transformFunc runs.
WriteHooks(t) ==
  {h \in [vd : VerdictsOf(t), toTfOk : OutcomesOf(t), vd2 : VerdictsOf(t)] :
     /\ Failed(h.vd) => h.toTfOk
     /\ (Failed(h.vd) \/ ~h.toTfOk) => h.vd2 = <<>>}

----------------------------------------------------------------------------
(* Framework values (attr.Value): [ty, st, v] with ty the attr.Type that   *)
(* created the value; v is a string, or a map of child attr.Values.        *)

\* attr.Type.ValueFromTerraform: the framework value of a wire value.
RECURSIVE ValueFromTerraform(_, _)
ValueFromTerraform(t, val) ==
  [ty |-> t, st |-> val.st,
   v  |-> IF val.st = "known" /\ t.k = "Object"
            THEN [a \in DOMAIN t.attrs |-> ValueFromTerraform(t.attrs[a], val.v[a])]
            ELSE val.v]

\* attr.Value.ToTerraformValue: the payload handed to tftypes.NewValue; an
\* object's children are wire values of their own types.
RECURSIVE ToTerraformValue(_)
ToTerraformValue(av) ==
  IF av.st = "null" THEN NilPayload
  ELSE IF av.st = "unknown" THEN UnknownPayload
  ELSE IF av.ty.k = "Object"
    THEN Payload([a \in DOMAIN av.v |->
                    NewValue(TerraformType(av.v[a].ty), ToTerraformValue(av.v[a]))])
    ELSE Payload(av.v)

----------------------------------------------------------------------------
(* Host values (the interface{} a caller passes or receives):              *)
(*   [h |-> "nil"]                 an untyped nil                          *)
(*   [h |-> "nilptr"]              a typed nil pointer                     *)
(*   [h |-> "string", s |-> n]     a string (or a pointer to one)          *)
(*   [h |-> "attr", av |-> x]      an attr.Value                           *)
(*   [h |-> "struct", f |-> m]     a struct, tfsdk-tagged field -> value   *)
(*   [h |-> "bool"]                a bool: fits no type of this schema     *)

HNil == [h |-> "nil"]
HNilPtr == [h |-> "nilptr"]
HString(n) == [h |-> "string", s |-> n]
HAttr(av) == [h |-> "attr", av |-> av]
HStruct(m) == [h |-> "struct", f |-> m]
HBool == [h |-> "bool"]

NullOf(t) == [ty |-> t, st |-> "null", v |-> Zero(t)]
UnknownOf(t) == [ty |-> t, st |-> "unknown", v |-> Zero(t)]

ConversionError(path) ==
  AttributeDiagnostic("Error", path, "Value Conversion Error", "incompatible")

Concat(seqs, order) ==
  LET RECURSIVE Cat(_)
      Cat(i) == IF i > Len(order) THEN <<>> ELSE seqs[order[i]] \o Cat(i + 1)
  IN  Cat(1)

\* reflect.FromValue(ctx, typ, val, path): the framework value of a host
\* value under an attribute type, running the type's Validate hook (verdict
\* vd) on it; an Error diagnostic, and no value, when the host value's shape
\* does not fit the type or the hook reports an Error.  A struct is converted
\* field by field, each under its own path, collecting every diagnostic.
RECURSIVE FromValue(_, _, _, _)
FromValue(typ, val, path, vd) ==
  LET fits ==
        \/ val.h = "nilptr"
        \/ val.h = "attr" /\ val.av.ty = typ
        \/ val.h = "string" /\ typ.k = "String"
        \/ val.h = "struct" /\ typ.k = "Object" /\ DOMAIN val.f = DOMAIN typ.attrs
      fields == [a \in DOMAIN typ.attrs |->
                   FromValue(typ.attrs[a], val.f[a], Append(path, a), vd)]
      checked == IF typ.validate THEN Validate(vd, path) ELSE <<>>
  IN  IF ~fits THEN [ok |-> FALSE, diags |-> <<ConversionError(path)>>]
      ELSE IF val.h = "struct"
        THEN LET ds == Concat([a \in DOMAIN typ.attrs |-> fields[a].diags], typ.order)
             IN  IF HasError(ds) THEN [ok |-> FALSE, diags |-> ds]
                 ELSE [ok |-> TRUE, diags |-> ds,
                       av |-> [ty |-> typ, st |-> "known",
                               v |-> [a \in DOMAIN typ.attrs |-> fields[a].av]]]
      ELSE IF HasError(checked) THEN [ok |-> FALSE, diags |-> checked]
      ELSE [ok |-> TRUE, diags |-> checked,
            av |-> CASE val.h = "nilptr" -> NullOf(typ)
                     [] val.h = "attr" -> val.av
                     [] val.h = "string" -> [ty |-> typ, st |-> "known", v |-> val.s]]

\* The targets of a read: the Go type of the value target points to.
Targets == {"string", "ptr", "attr", "struct", "bool"}

\* Whether reflect.Into can populate a target of kind tgt from av: a string
\* takes a known string, a pointer a known string or the null of any type,
\* an attr.Value target any value, a struct (of pointer fields) a known
\* object; a bool nothing of this schema.
RECURSIVE Populates(_, _)
Populates(av, tgt) ==
  CASE tgt = "attr" -> TRUE
    [] tgt = "string" -> av.ty.k = "String" /\ av.st = "known"
    [] tgt = "ptr" -> av.st = "null" \/ (av.ty.k = "String" /\ av.st = "known")
    [] tgt = "struct" -> /\ av.ty.k = "Object"
                         /\ av.st = "known"
                         /\ \A a \in DOMAIN av.v : Populates(av.v[a], "ptr")
    [] OTHER -> FALSE

\* The host value reflect.Into builds in a target of kind tgt.
RECURSIVE Built(_, _)
Built(av, tgt) ==
  CASE tgt = "attr" -> HAttr(av)
    [] tgt \in {"string", "ptr"} ->
         IF av.st = "null" THEN HNilPtr ELSE HString(av.v)
    [] OTHER -> HStruct([a \in DOMAIN av.v |-> Built(av.v[a], "ptr")])

\* The target before a read, and after a read that did not populate it.
ZeroTarget == [populated |-> FALSE]

\* The diagnostics of the hooks reflect.Into runs: they carry no path.
IntoDiagnostics(asVd) ==
  [i \in 1..Len(asVd) |-> Diagnostic(asVd[i], "Value Conversion Warning", "hook")]

\* tfsdk.ValueAs(ctx, val, target): populates the target, or reports one
\* Error that carries no path; asVd is what the hooks it runs report first.
ValueAs(av, tgt, asVd) ==
  IF Populates(av, tgt)
    THEN [diags |-> IntoDiagnostics(asVd),
          target |-> [populated |-> TRUE, val |-> Built(av, tgt)]]
    ELSE [diags |-> IntoDiagnostics(asVd)
                      \o <<Diagnostic("Error", "Value Conversion Error", "incompatible")>>,
          target |-> ZeroTarget]

\* Whether reflect.Into can populate a pointer field of the value's own
\* shape (a *string, or a pointer to a struct of such fields): the value is
\* null, or known with every child populating its field.
RECURSIVE IntoFits(_)
IntoFits(av) ==
  \/ av.st = "null"
  \/ /\ av.st = "known"
     /\ av.ty.k = "Object" => \A a \in DOMAIN av.v : IntoFits(av.v[a])

\* The host value reflect.Into builds in such a field.
RECURSIVE IntoBuilt(_)
IntoBuilt(av) ==
  IF av.st = "null" THEN HNilPtr
  ELSE IF av.ty.k = "Object"
    THEN HStruct([a \in DOMAIN av.v |-> IntoBuilt(av.v[a])])
    ELSE HString(av.v)

\* The targets of State.Get: a struct with one field per attribute of the
\* schema, or a bool.
GetTargets == {"struct", "bool"}

\* reflect.Into(ctx, typ, val, target, opts) at the root of a document: a
\* struct target takes a known document whose attributes populate its
\* fields; asVd is what the hooks it runs report first.
Into(typ, val, tgt, asVd) ==
  LET av == ValueFromTerraform(typ, val)
  IN  IF tgt = "struct" /\ av.st = "known" /\ \A a \in DOMAIN av.v : IntoFits(av.v[a])
        THEN [diags |-> IntoDiagnostics(asVd),
              target |-> [populated |-> TRUE,
                          val |-> HStruct([a \in DOMAIN av.v |-> IntoBuilt(av.v[a])])]]
        ELSE [diags |-> IntoDiagnostics(asVd)
                          \o <<Diagnostic("Error", "Value Conversion Error", "incompatible")>>,
              target |-> ZeroTarget]

----------------------------------------------------------------------------
(* The operations of State, as functions of the State and of the inputs.   *)

\* State.Get(ctx, target), target of kind tgt.
Get(raw, schema, tgt, asVd) == Into(SchemaAttributeType(schema), raw, tgt, asVd)

ReadError(path, detail) ==
  AttributeDiagnostic("Error", path, "State Read Error", detail)

WriteError(path, detail) ==
  AttributeDiagnostic("Error", path, "State Write Error", detail)

NoValue == [isNil |-> TRUE]

\* getAttributeValue going on to the conversion after an Error from Validate.
getAttributeValue_NoReturnOnError(raw, schema, path, vd, convOk) ==
  LET at == AttributeTypeAtPath(schema, path)
      tf == terraformValueAtPath(raw, path)
      checked == IF at.type.validate THEN Validate(vd, path) ELSE <<>>
      called == IF at.type.validate THEN <<"Validate">> ELSE <<>>
  IN  IF ~at.ok
        THEN [val |-> NoValue, diags |-> <<ReadError(path, "schema")>>, trace |-> <<>>]
      ELSE IF IsNull(raw)
        THEN [val |-> NoValue, diags |-> <<>>, trace |-> <<>>]
      ELSE IF ~tf.ok
        THEN [val |-> NoValue, diags |-> <<ReadError(path, "walk")>>, trace |-> <<>>]
      ELSE IF ~convOk
        THEN [val |-> NoValue,
              diags |-> checked \o <<ReadError(path, "conversion")>>,
              trace |-> called \o <<"ValueFromTerraform">>]
      ELSE [val |-> [isNil |-> FALSE, av |-> ValueFromTerraform(at.type, tf.val)],
            diags |-> checked,
            trace |-> called \o <<"ValueFromTerraform">>]

\* getAttributeValue returning on any diagnostic of Validate, Warnings too.
getAttributeValue_ReturnOnWarning(raw, schema, path, vd, convOk) ==
  LET at == AttributeTypeAtPath(schema, path)
      tf == terraformValueAtPath(raw, path)
      checked == IF at.type.validate THEN Validate(vd, path) ELSE <<>>
      called == IF at.type.validate THEN <<"Validate">> ELSE <<>>
  IN  IF ~at.ok
        THEN [val |-> NoValue, diags |-> <<ReadError(path, "schema")>>, trace |-> <<>>]
      ELSE IF IsNull(raw)
        THEN [val |-> NoValue, diags |-> <<>>, trace |-> <<>>]
      ELSE IF ~tf.ok
        THEN [val |-> NoValue, diags |-> <<ReadError(path, "walk")>>, trace |-> <<>>]
      ELSE IF Len(checked) > 0
        THEN [val |-> NoValue, diags |-> checked, trace |-> called]
      ELSE IF ~convOk
        THEN [val |-> NoValue,
              diags |-> checked \o <<ReadError(path, "conversion")>>,
              trace |-> called \o <<"ValueFromTerraform">>]
      ELSE [val |-> [isNil |-> FALSE, av |-> ValueFromTerraform(at.type, tf.val)],
            diags |-> checked,
            trace |-> called \o <<"ValueFromTerraform">>]

\* getAttributeValue looking at the tree before it asks the schema.
getAttributeValue_TreeBeforeSchema(raw, schema, path, vd, convOk) ==
  LET at == AttributeTypeAtPath(schema, path)
      tf == terraformValueAtPath(raw, path)
      checked == IF at.type.validate THEN Validate(vd, path) ELSE <<>>
      called == IF at.type.validate THEN <<"Validate">> ELSE <<>>
  IN  IF IsNull(raw)
        THEN [val |-> NoValue, diags |-> <<>>, trace |-> <<>>]
      ELSE IF ~tf.ok
        THEN [val |-> NoValue, diags |-> <<ReadError(path, "walk")>>, trace |-> <<>>]
      ELSE IF ~at.ok
        THEN [val |-> NoValue, diags |-> <<ReadError(path, "schema")>>, trace |-> <<>>]
      ELSE IF HasError(checked)
        THEN [val |-> NoValue, diags |-> checked, trace |-> called]
      ELSE IF ~convOk
        THEN [val |-> NoValue,
              diags |-> checked \o <<ReadError(path, "conversion")>>,
              trace |-> called \o <<"ValueFromTerraform">>]
      ELSE [val |-> [isNil |-> FALSE, av |-> ValueFromTerraform(at.type, tf.val)],
            diags |-> checked,
            trace |-> called \o <<"ValueFromTerraform">>]

\* State.getAttributeValue(ctx, path); vd is the verdict of the type's
\* Validate hook and convOk whether its ValueFromTerraform succeeds.
getAttributeValue(raw, schema, path, vd, convOk) ==
  LET at == AttributeTypeAtPath(schema, path)
      tf == terraformValueAtPath(raw, path)
      checked == IF at.type.validate THEN Validate(vd, path) ELSE <<>>
      called == IF at.type.validate THEN <<"Validate">> ELSE <<>>
  IN  IF ~at.ok
        THEN [val |-> NoValue, diags |-> <<ReadError(path, "schema")>>, trace |-> <<>>]
      ELSE IF IsNull(raw)
        THEN [val |-> NoValue, diags |-> <<>>, trace |-> <<>>]
      ELSE IF ~tf.ok
        THEN [val |-> NoValue, diags |-> <<ReadError(path, "walk")>>, trace |-> <<>>]
      ELSE IF HasError(checked)
        THEN [val |-> NoValue, diags |-> checked, trace |-> called]
      ELSE IF ~convOk
        THEN [val |-> NoValue,
              diags |-> checked \o <<ReadError(path, "conversion")>>,
              trace |-> called \o <<"ValueFromTerraform">>]
      ELSE [val |-> [isNil |-> FALSE, av |-> ValueFromTerraform(at.type, tf.val)],
            diags |-> checked,
            trace |-> called \o <<"ValueFromTerraform">>]

\* The loop over ValueAs's diagnostics rebuilding the Errors only.
Reattribute_ErrorsOnly(ds, path) ==
  [i \in 1..Len(ds) |->
     IF ds[i].sev = "Error"
       THEN AttributeDiagnostic(ds[i].sev, path, ds[i].summary, ds[i].detail)
       ELSE ds[i]]

\* The loop of State.GetAttribute over ValueAs's diagnostics: each Error and
\* each Warning is rebuilt with the requested path.
Reattribute(ds, path) ==
  [i \in 1..Len(ds) |->
     IF ds[i].sev \in {"Error", "Warning"}
       THEN AttributeDiagnostic(ds[i].sev, path, ds[i].summary, ds[i].detail)
       ELSE ds[i]]

\* GetAttribute appending ValueAs's diagnostics as they are, without a path.
GetAttribute_NoReattribute(raw, schema, path, tgt, vd, convOk, asVd) ==
  LET got == getAttributeValue(raw, schema, path, vd, convOk)
      as == ValueAs(got.val.av, tgt, asVd)
  IN  IF HasError(got.diags)
        THEN [diags |-> got.diags, target |-> ZeroTarget, trace |-> got.trace]
      ELSE IF got.val.isNil
        THEN [diags |-> got.diags \o <<ReadError(path, "missing")>>,
              target |-> ZeroTarget, trace |-> got.trace]
      ELSE [diags |-> got.diags \o as.diags,
            target |-> as.target,
            trace |-> got.trace \o <<"ValueAs">>]

\* GetAttribute returning the diagnostics of ValueAs alone.
GetAttribute_ReturnsValueAsDiags(raw, schema, path, tgt, vd, convOk, asVd) ==
  LET got == getAttributeValue(raw, schema, path, vd, convOk)
      as == ValueAs(got.val.av, tgt, asVd)
  IN  IF HasError(got.diags)
        THEN [diags |-> got.diags, target |-> ZeroTarget, trace |-> got.trace]
      ELSE IF got.val.isNil
        THEN [diags |-> got.diags \o <<ReadError(path, "missing")>>,
              target |-> ZeroTarget, trace |-> got.trace]
      ELSE [diags |-> Reattribute(as.diags, path),
            target |-> as.target,
            trace |-> got.trace \o <<"ValueAs">>]

\* State.GetAttribute(ctx, path, target), target of kind tgt.
GetAttribute(raw, schema, path, tgt, vd, convOk, asVd) ==
  LET got == getAttributeValue(raw, schema, path, vd, convOk)
      as == ValueAs(got.val.av, tgt, asVd)
  IN  IF HasError(got.diags)
        THEN [diags |-> got.diags, target |-> ZeroTarget, trace |-> got.trace]
      ELSE IF got.val.isNil
        THEN [diags |-> got.diags \o <<ReadError(path, "missing")>>,
              target |-> ZeroTarget, trace |-> got.trace]
      ELSE [diags |-> got.diags \o Reattribute(as.diags, path),
            target |-> as.target,
            trace |-> got.trace \o <<"ValueAs">>]

\* State.Set(ctx, val); vd is the verdict of the Validate hooks FromValue
\* runs, toTfOk whether ToTerraformValue succeeds.
Set(raw, schema, val, vd, toTfOk) ==
  LET new == FromValue(SchemaAttributeType(schema), val, <<>>, vd)
  IN  IF val.h = "nil"
        THEN [raw |-> raw,
              diags |-> <<Diagnostic("Error", "State Read Error", "nil")>>]
      ELSE IF HasError(new.diags)
        THEN [raw |-> raw, diags |-> new.diags]
      ELSE IF ~toTfOk
        THEN [raw |-> raw,
              diags |-> new.diags
                          \o <<Diagnostic("Error", "State Write Error", "conversion")>>]
      ELSE [raw |-> NewValue(SchemaTerraformType(schema), ToTerraformValue(new.av)),
            diags |-> new.diags]

\* transformFunc answering an empty value of the node's type, not the node,
\* for the nodes that are not at the path.
transformFunc_DropOthers(p, v, path, tfVal, failed) ==
  IF p = path
    THEN IF failed THEN v ELSE tfVal
    ELSE NewValue(v.ty, NilPayload)

\* transformFunc without the check of Validate's diagnostics.
transformFunc_IgnoreValidate(p, v, path, tfVal, failed) ==
  IF p = path THEN tfVal ELSE v

\* The transformFunc closure of State.SetAttribute: called on the node v at
\* p, it answers the new value tfVal at the path being set, unless the
\* Validate hook reported an Error, and v anywhere else.
transformFunc(p, v, path, tfVal, failed) ==
  IF p = path
    THEN IF failed THEN v ELSE tfVal
    ELSE v

\* tftypes.Transform(val, transformFunc): rebuilds the value bottom-up,
\* calling transformFunc on every node that exists in it; it does not
\* descend into a null or unknown node.
RECURSIVE Transform(_, _, _, _, _)
Transform(p, val, path, tfVal, failed) ==
  LET newVal ==
        IF val.st = "known" /\ val.ty.k = "Object"
          THEN [val EXCEPT !.v = [a \in DOMAIN val.v |->
                  Transform(Append(p, a), val.v[a], path, tfVal, failed)]]
          ELSE val
  IN  transformFunc(p, newVal, path, tfVal, failed)

\* SetAttribute looking at ToTerraformValue's error only after the transform:
\* the empty payload that came with the error is placed at the path.
SetAttribute_ChecksErrAfterTransform(raw, schema, path, val, vd, toTfOk, vd2) ==
  LET at == AttributeTypeAtPath(schema, path)
      new == FromValue(at.type, val, path, vd)
      tfVal == NewValue(TerraformType(at.type), ToTerraformValue(new.av))
      visited == terraformValueAtPath(raw, path).ok
      checked == IF visited /\ at.type.validate THEN Validate(vd2, path) ELSE <<>>
      called == IF at.type.validate THEN <<"Validate">> ELSE <<>>
  IN  IF ~at.ok
        THEN [raw |-> raw, diags |-> <<WriteError(path, "schema")>>, trace |-> <<>>]
      ELSE IF HasError(new.diags)
        THEN [raw |-> raw, diags |-> new.diags, trace |-> <<"FromValue">>]
      ELSE IF ~toTfOk
        THEN [raw |-> Transform(<<>>, raw, path,
                                NewValue(TerraformType(at.type), NilPayload), FALSE),
              diags |-> new.diags \o <<WriteError(path, "conversion")>>,
              trace |-> <<"FromValue", "ToTerraformValue">>]
      ELSE [raw |-> Transform(<<>>, raw, path, tfVal, HasError(checked)),
            diags |-> new.diags \o checked,
            trace |-> <<"FromValue", "ToTerraformValue">>
                        \o (IF visited THEN <<"transformFunc">> \o called ELSE <<>>)]

\* State.SetAttribute(ctx, path, val); vd is the verdict of the Validate hook
\* FromValue runs, vd2 of the one transformFunc runs, toTfOk whether
\* ToTerraformValue succeeds.
\* transformFunc returns no error and the new value has the type of the
\* node it replaces, so Transform itself does not fail on these trees.
SetAttribute(raw, schema, path, val, vd, toTfOk, vd2) ==
  LET at == AttributeTypeAtPath(schema, path)
      new == FromValue(at.type, val, path, vd)
      tfVal == NewValue(TerraformType(at.type), ToTerraformValue(new.av))
      \* transformFunc runs on the node at path when the tree holds one
      visited == terraformValueAtPath(raw, path).ok
      checked == IF visited /\ at.type.validate THEN Validate(vd2, path) ELSE <<>>
      called == IF at.type.validate THEN <<"Validate">> ELSE <<>>
  IN  IF ~at.ok
        THEN [raw |-> raw, diags |-> <<WriteError(path, "schema")>>, trace |-> <<>>]
      ELSE IF HasError(new.diags)
        THEN [raw |-> raw, diags |-> new.diags, trace |-> <<"FromValue">>]
      ELSE IF ~toTfOk
        THEN [raw |-> raw,
              diags |-> new.diags \o <<WriteError(path, "conversion")>>,
              trace |-> <<"FromValue", "ToTerraformValue">>]
      ELSE [raw |-> Transform(<<>>, raw, path, tfVal, HasError(checked)),
            diags |-> new.diags \o checked,
            trace |-> <<"FromValue", "ToTerraformValue">>
                        \o (IF visited THEN <<"transformFunc">> \o called ELSE <<>>)]

\* RemoveResource leaving a known document whose attributes are all null.
RemoveResource_NullsAttributes(schema) ==
  NewValue(SchemaTerraformType(schema),
           Payload([a \in DOMAIN schema |->
                      NewValue(TerraformType(schema[a]), NilPayload)]))

\* State.RemoveResource(ctx).
RemoveResource(schema) == NewValue(SchemaTerraformType(schema), NilPayload)

----------------------------------------------------------------------------
(* The state machine: a State constructed over any tree, then any          *)
(* sequence of calls.                                                      *)

\* The host values a field of string type is written with.
LeafHosts == {HString(s) : s \in Strs} \cup {HNilPtr}

\* The host values SetAttribute is called with.
AttributeHosts ==
  LeafHosts
    \cup {HBool}
    \cup {HAttr(UnknownOf(t)) : t \in {StringType, StringTypeWithValidate}}
    \cup {HStruct([inner |-> f]) : f \in LeafHosts}

\* The host values Set is called with: nil, a nil pointer, a bool, or a
\* struct with one field per attribute of the schema.
DocumentHosts ==
  {HNil, HNilPtr, HBool}
    \cup {HStruct([name |-> n, obj |-> o]) :
            n \in LeafHosts,
            o \in {HNilPtr} \cup {HStruct([inner |-> f]) : f \in LeafHosts}}

\* The attribute type whose hooks a call at path runs, if any.
HookType(schema, path) ==
  LET at == AttributeTypeAtPath(schema, path)
  IN  IF at.ok THEN at.type ELSE StringType

\* The callers of the calls in progress.
Writers == {"w1", "w2"}

IdleWriter == [pc |-> "idle"]

NoReader == [holds |-> FALSE]

\* No reference is tracked and no call is in progress.
NoReferences == cells = <<>> /\ ref = 0 /\ reader = NoReader

NoWriters == writers = [w \in Writers |-> IdleWriter] /\ wrote = <<>>

Init ==
  /\ Raw \in Trees
  /\ Schema = TestSchema
  /\ op = "New"
  /\ arg = <<>>
  /\ prev = Raw
  /\ diags = <<>>
  /\ target = ZeroTarget
  /\ trace = <<>>
  /\ NoReferences
  /\ NoWriters

CallGet ==
  \E tgt \in GetTargets, asVd \in IntoVerdictsOf(StringTypeWithValidate) :
    \E r \in {Get(Raw, Schema, tgt, asVd)} :
        /\ op' = "Get"
        /\ arg' = [tgt |-> tgt, asVd |-> asVd]
        /\ prev' = Raw
        /\ diags' = r.diags
        /\ target' = r.target
        /\ trace' = <<>>
        /\ UNCHANGED <<Raw, Schema>>
        /\ UNCHANGED shared

\* A GetAttribute that resets the tree when the read returns an Error.
CallGetAttribute_ResetsOnError ==
  \E path \in Paths, tgt \in Targets :
    \E h \in ReadHooks(HookType(Schema, path)) :
      \E r \in {GetAttribute(Raw, Schema, path, tgt, h.vd, h.convOk, h.asVd)} :
          /\ op' = "GetAttribute"
          /\ arg' = [path |-> path, tgt |-> tgt, vd |-> h.vd, convOk |-> h.convOk,
                     asVd |-> h.asVd]
          /\ prev' = Raw
          /\ diags' = r.diags
          /\ target' = r.target
          /\ trace' = r.trace
          /\ Raw' = IF HasError(r.diags)
                      THEN NewValue(SchemaTerraformType(Schema), NilPayload)
                      ELSE Raw
          /\ UNCHANGED Schema
          /\ UNCHANGED shared

CallGetAttribute ==
  \E path \in Paths, tgt \in Targets :
    \E h \in ReadHooks(HookType(Schema, path)) :
      \E r \in {GetAttribute(Raw, Schema, path, tgt, h.vd, h.convOk, h.asVd)} :
          /\ op' = "GetAttribute"
          /\ arg' = [path |-> path, tgt |-> tgt, vd |-> h.vd, convOk |-> h.convOk,
                     asVd |-> h.asVd]
          /\ prev' = Raw
          /\ diags' = r.diags
          /\ target' = r.target
          /\ trace' = r.trace
          /\ UNCHANGED <<Raw, Schema>>
          /\ UNCHANGED shared

CallSet ==
  \E val \in DocumentHosts, h \in WriteHooks(StringTypeWithValidate) :
    \E r \in {Set(Raw, Schema, val, h.vd, h.toTfOk)} :
        /\ h.vd2 = <<>>
        /\ op' = "Set"
        /\ arg' = [val |-> val, vd |-> h.vd, toTfOk |-> h.toTfOk]
        /\ prev' = Raw
        /\ Raw' = r.raw
        /\ diags' = r.diags
        /\ target' = ZeroTarget
        /\ trace' = <<>>
        /\ UNCHANGED Schema
        /\ UNCHANGED shared

CallSetAttribute ==
  \E path \in Paths, val \in AttributeHosts :
    \E h \in WriteHooks(HookType(Schema, path)) :
      \E r \in {SetAttribute(Raw, Schema, path, val, h.vd, h.toTfOk, h.vd2)} :
          /\ op' = "SetAttribute"
          /\ arg' = [path |-> path, val |-> val, vd |-> h.vd,
                     toTfOk |-> h.toTfOk, vd2 |-> h.vd2]
          /\ prev' = Raw
          /\ Raw' = r.raw
          /\ diags' = r.diags
          /\ target' = ZeroTarget
          /\ trace' = r.trace
          /\ UNCHANGED Schema
          /\ UNCHANGED shared

CallRemoveResource ==
  /\ op' = "RemoveResource"
  /\ arg' = <<>>
  /\ prev' = Raw
  /\ Raw' = RemoveResource(Schema)
  /\ diags' = <<>>
  /\ target' = ZeroTarget
  /\ trace' = <<>>
  /\ UNCHANGED Schema
  /\ UNCHANGED shared

Next ==
  \/ CallGet
  \/ CallGetAttribute
  \/ CallSet
  \/ CallSetAttribute
  \/ CallRemoveResource

Spec == Init /\ [][Next]_vars

----------------------------------------------------------------------------
(* A State whose nested object holds two attributes, written attribute by  *)
(* attribute: the schema of the calls at sibling paths below the root.     *)

PairSchema ==
  [name |-> StringTypeWithValidate,
   obj  |-> ObjectType([inner |-> StringType, other |-> StringType],
                       <<"inner", "other">>)]

\* The wire values of the nested object of PairSchema.
PairObjValues ==
  LET ty == TerraformType(PairSchema.obj)
  IN  {NewValue(ty, NilPayload), NewValue(ty, UnknownPayload)}
        \cup {NewValue(ty, Payload([inner |-> i, other |-> o])) :
                i \in StringValues, o \in StringValues}

\* The trees a State over PairSchema is constructed with.
PairTrees ==
  LET ty == SchemaTerraformType(PairSchema)
  IN  {NewValue(ty, NilPayload)}
        \cup {NewValue(ty, Payload([name |-> n, obj |-> o])) :
                n \in StringValues, o \in PairObjValues}

PairPaths == {<<"name">>, <<"obj">>, <<"obj", "inner">>, <<"obj", "other">>}

InitPair ==
  /\ Raw \in PairTrees
  /\ Schema = PairSchema
  /\ op = "New"
  /\ arg = <<>>
  /\ prev = Raw
  /\ diags = <<>>
  /\ target = ZeroTarget
  /\ trace = <<>>
  /\ NoReferences
  /\ NoWriters

\* State.SetAttribute at a path of PairSchema, with a string or a nil pointer.
CallSetAttributePair ==
  \E path \in PairPaths, val \in LeafHosts :
    \E h \in WriteHooks(HookType(Schema, path)) :
      \E r \in {SetAttribute(Raw, Schema, path, val, h.vd, h.toTfOk, h.vd2)} :
          /\ op' = "SetAttribute"
          /\ arg' = [path |-> path, val |-> val, vd |-> h.vd,
                     toTfOk |-> h.toTfOk, vd2 |-> h.vd2]
          /\ prev' = Raw
          /\ Raw' = r.raw
          /\ diags' = r.diags
          /\ target' = ZeroTarget
          /\ trace' = r.trace
          /\ UNCHANGED Schema
          /\ UNCHANGED shared

NextPair ==
  \/ CallSetAttributePair
  \/ CallRemoveResource

SpecPair == InitPair /\ [][NextPair]_vars

----------------------------------------------------------------------------
(* A reader's copy of the State.  State.Raw refers to a tree in memory     *)
(* (cells[ref]); a copy of the State, or of its Raw, holds the same        *)
(* reference.  Set, SetAttribute and RemoveResource build a tree and       *)
(* assign it to s.Raw.                                                     *)

\* The addresses of the trees: one for the State, one for the reader.
Addrs == {"a1", "a2"}

\* The assignment writing through the reference: the tree in the cell that
\* s.Raw refers to is overwritten.
Assign_InPlace(cs, r, rd, tree) ==
  [cells |-> [cs EXCEPT ![r] = tree], ref |-> r]

\* The assignment s.Raw = tree of a tree just built: the tree is in a cell
\* of its own, s.Raw refers to it, and the cell the reader holds stays; a
\* cell no reference holds any more is released.
Assign(cs, r, rd, tree) ==
  LET kept == IF rd.holds THEN {rd.ref} ELSE {}
      a == CHOOSE x \in Addrs \ kept : TRUE
  IN  [cells |-> [x \in kept \cup {a} |-> IF x = a THEN tree ELSE cs[x]],
       ref |-> a]

\* Whether SetAttribute gets as far as the transform and the assignment of
\* its result, past the returns on an Error.
ReachesTransform(schema, path, val, vd, toTfOk) ==
  LET at == AttributeTypeAtPath(schema, path)
  IN  /\ at.ok
      /\ ~HasError(FromValue(at.type, val, path, vd).diags)
      /\ toTfOk

\* The hook outcomes of a write that decide the tree it leaves: an Error or
\* none from each hook (a Warning changes no tree).
TreeHooks(t) ==
  {h \in WriteHooks(t) : h.vd \in {<<>>, <<"Error">>} /\ h.vd2 \in {<<>>, <<"Error">>}}

InitReader ==
  /\ Raw \in Trees
  /\ Schema = TestSchema
  /\ op = "New"
  /\ arg = <<>>
  /\ prev = <<>>
  /\ diags = <<>>
  /\ target = ZeroTarget
  /\ trace = <<>>
  /\ cells = [x \in {"a1"} |-> Raw]
  /\ ref = "a1"
  /\ reader = NoReader
  /\ NoWriters

\* What the calls of this specification leave alone: it follows the
\* references, not the results of the calls.
untracked == <<Schema, op, arg, prev, diags, target, trace, writers, wrote>>

\* A reader copies the State (or its Raw): it holds the reference s.Raw
\* holds now, and lets go of the one it held.
ReaderCopies ==
  /\ ~(reader.holds /\ reader.ref = ref)
  /\ reader' = [holds |-> TRUE, ref |-> ref, seen |-> cells[ref]]
  /\ cells' = [x \in {ref} |-> cells[x]]
  /\ UNCHANGED <<Raw, ref>>
  /\ UNCHANGED untracked

\* State.Set while the reader holds its copy.
RefSet ==
  \E val \in DocumentHosts, h \in TreeHooks(StringTypeWithValidate) :
    \E r \in {Set(Raw, Schema, val, h.vd, h.toTfOk)} :
        /\ h.vd2 = <<>>
        /\ IF HasError(r.diags)
             THEN UNCHANGED <<Raw, cells, ref>>
             ELSE \E s \in {Assign(cells, ref, reader, r.raw)} :
                    /\ Raw' = r.raw
                    /\ cells' = s.cells
                    /\ ref' = s.ref
        /\ UNCHANGED reader
        /\ UNCHANGED untracked

\* State.SetAttribute while the reader holds its copy.
RefSetAttribute ==
  \E path \in Paths, val \in AttributeHosts :
    \E h \in TreeHooks(HookType(Schema, path)) :
      \E r \in {SetAttribute(Raw, Schema, path, val, h.vd, h.toTfOk, h.vd2)} :
          /\ IF ReachesTransform(Schema, path, val, h.vd, h.toTfOk)
               THEN \E s \in {Assign(cells, ref, reader, r.raw)} :
                      /\ Raw' = r.raw
                      /\ cells' = s.cells
                      /\ ref' = s.ref
               ELSE UNCHANGED <<Raw, cells, ref>>
          /\ UNCHANGED reader
          /\ UNCHANGED untracked

\* State.RemoveResource while the reader holds its copy.
RefRemoveResource ==
  \E s \in {Assign(cells, ref, reader, RemoveResource(Schema))} :
    /\ Raw' = RemoveResource(Schema)
    /\ cells' = s.cells
    /\ ref' = s.ref
    /\ UNCHANGED reader
    /\ UNCHANGED untracked

NextReader ==
  \/ ReaderCopies
  \/ RefSet
  \/ RefSetAttribute
  \/ RefRemoveResource

SpecReader == InitReader /\ [][NextReader]_vars

----------------------------------------------------------------------------
(* Two callers of SetAttribute on the same *State with nothing to          *)
(* serialize them.  Line 207, s.Raw, err = tftypes.Transform(s.Raw, f),    *)
(* reads s.Raw as the argument of Transform, transforms the tree it read   *)
(* and then assigns the result to s.Raw: the read and the assignment are   *)
(* separate steps of each caller.  The steps of the two callers           *)
(* interleave in any order; each read sees the tree of one whole           *)
(* assignment (all trees of one State have the same type and layout).      *)

\* The tree a caller assigns: the transform of the tree it read.
WriteBack_OfCurrentTree(treeRead, treeNow, schema, path, val) ==
  SetAttribute(treeNow, schema, path, val, <<>>, TRUE, <<>>).raw

WriteBack(treeRead, treeNow, schema, path, val) ==
  SetAttribute(treeRead, schema, path, val, <<>>, TRUE, <<>>).raw

\* The calls of the two callers: a path the schema resolves and a value
\* that fits its type, with hooks that report nothing.
WriterCalls ==
  {c \in [path : Paths, val : LeafHosts] :
     ReachesTransform(TestSchema, c.path, c.val, <<>>, TRUE)}

InitWriters ==
  /\ Raw \in Trees
  /\ Schema = TestSchema
  /\ op = "New"
  /\ arg = <<>>
  /\ prev = Raw
  /\ diags = <<>>
  /\ target = ZeroTarget
  /\ trace = <<>>
  /\ NoReferences
  /\ NoWriters

\* SetAttribute by caller w up to the argument of Transform: the value is
\* converted and s.Raw is read.
WriterReads(w) ==
  /\ writers[w].pc = "idle"
  /\ \E c \in WriterCalls :
       writers' = [writers EXCEPT ![w] =
                     [pc |-> "read", path |-> c.path, val |-> c.val,
                      tree |-> Raw, stale |-> FALSE]]
  /\ UNCHANGED <<Raw, Schema, op, arg, prev, diags, target, trace>>
  /\ UNCHANGED <<cells, ref, reader, wrote>>

\* The rest of SetAttribute by caller w: the tree it read is transformed and
\* the result assigned to s.Raw.  A caller that has read and not yet
\* assigned now holds a tree that is no longer the State's.
WriterAssigns(w) ==
  /\ writers[w].pc = "read"
  /\ Raw' = WriteBack(writers[w].tree, Raw, Schema, writers[w].path, writers[w].val)
  /\ writers' =
       [v \in Writers |->
          IF v = w
            THEN [pc |-> "done", path |-> writers[w].path, val |-> writers[w].val,
                  stale |-> writers[w].stale]
          ELSE IF writers[v].pc = "read"
            THEN [writers[v] EXCEPT !.stale = TRUE]
            ELSE writers[v]]
  /\ wrote' = Append(wrote, w)
  /\ UNCHANGED <<Schema, op, arg, prev, diags, target, trace>>
  /\ UNCHANGED <<cells, ref, reader>>

NextWriters ==
  \/ \E w \in Writers : WriterReads(w)
  \/ \E w \in Writers : WriterAssigns(w)

SpecWriters == InitWriters /\ [][NextWriters]_vars

----------------------------------------------------------------------------
(* Properties.  Each is about the last call: op and arg say what was       *)
(* called, prev is the tree before it, Raw, diags, target and trace what   *)
(* it left.                                                                *)

Resolves(path) == AttributeTypeAtPath(Schema, path).ok

TypeAt(path) == AttributeTypeAtPath(Schema, path).type

Ran(hook) == \E i \in 1..Len(trace) : trace[i] = hook

\* The framework value SetAttribute's FromValue made of its argument.
Written == FromValue(TypeAt(arg.path), arg.val, arg.path, arg.vd)

\* The wire value SetAttribute places at its path.
WrittenWire ==
  NewValue(TerraformType(TypeAt(arg.path)), ToTerraformValue(Written.av))

\* A SetAttribute call whose path the schema resolves, whose value fits the
\* type and whose hooks reported no Error.
CleanSetAttribute ==
  /\ op = "SetAttribute"
  /\ Resolves(arg.path)
  /\ Written.ok
  /\ arg.toTfOk
  /\ ~Failed(arg.vd2)

\* C1: when the tree is root-null (as RemoveResource leaves it),
\* GetAttribute at every path the schema resolves returns no Error
\* diagnostic and leaves the target unpopulated.
C1_RootNullReadIsNoValueNoError ==
  (op = "GetAttribute" /\ IsNull(prev) /\ Resolves(arg.path))
    => (~HasError(diags) /\ target = ZeroTarget)

\* C2: SetAttribute on a root-null State, at a path the schema resolves and
\* with a value that fits, leaves the tree root-known: the node at the path
\* holds the value and every node off the path is null.
C2_SetAttributeMaterializesRootNull ==
  (CleanSetAttribute /\ IsNull(prev))
    => /\ ~IsNull(Raw)
       /\ terraformValueAtPath(Raw, arg.path) = [ok |-> TRUE, val |-> WrittenWire]
       /\ \A q \in Paths :
            (Resolves(q) /\ ~IsPrefix(q, arg.path) /\ ~IsPrefix(arg.path, q))
              => /\ terraformValueAtPath(Raw, q).ok
                 /\ IsNull(terraformValueAtPath(Raw, q).val)

\* C3: Set with a nil-equivalent document (an untyped nil or a nil pointer)
\* returns exactly one diagnostic, an Error, and leaves the tree as it was.
C3_SetNilIsOneErrorAndNoChange ==
  (op = "Set" /\ arg.val.h \in {"nil", "nilptr"})
    => /\ Len(diags) = 1
       /\ diags[1].sev = "Error"
       /\ Raw = prev

\* C4: Set is all-or-nothing: with an Error the tree is the tree before the
\* call; without one the tree is the wire form of the supplied document, and
\* a root-null State has become root-known.
C4_SetIsAllOrNothing ==
  op = "Set"
    => /\ HasError(diags) => Raw = prev
       /\ ~HasError(diags)
            => /\ Raw.ty = SchemaTerraformType(Schema)
               /\ arg.val.h = "struct" =>
                    /\ Raw.st = "known"
                    /\ Raw.v.name.st = (IF arg.val.f.name.h = "nilptr" THEN "null" ELSE "known")
                    /\ arg.val.f.name.h = "string" => Raw.v.name.v = arg.val.f.name.s
               /\ IsNull(prev) => ~IsNull(Raw)

\* The target whose Go type is the type of a host value.
TargetFor(val) ==
  CASE val.h = "string" -> "string"
    [] val.h = "nilptr" -> "ptr"
    [] val.h = "attr" -> "attr"
    [] val.h = "struct" -> "struct"

\* C5: on a root-known State, after SetAttribute(p, v) with p resolved by the
\* schema, v fitting the type and no Error from the hooks, GetAttribute(p)
\* into a target of v's type yields v and no Error.
C5_SetThenGetYieldsValue ==
  (CleanSetAttribute /\ ~IsNull(prev))
    => \A h \in ReadHooks(TypeAt(arg.path)) :
         (~Failed(h.vd) /\ h.convOk)
           => LET r == GetAttribute(Raw, Schema, arg.path, TargetFor(arg.val),
                                    h.vd, h.convOk, h.asVd)
              IN  /\ ~HasError(r.diags)
                  /\ r.target = [populated |-> TRUE, val |-> arg.val]

\* C5 holds where the tree already holds a node at p: the parent of p is a
\* known object.
C5_HoldsWhereTheNodeExists ==
  (CleanSetAttribute /\ terraformValueAtPath(prev, arg.path).ok)
    => \A h \in ReadHooks(TypeAt(arg.path)) :
         (~Failed(h.vd) /\ h.convOk)
           => LET r == GetAttribute(Raw, Schema, arg.path, TargetFor(arg.val),
                                    h.vd, h.convOk, h.asVd)
              IN  /\ ~HasError(r.diags)
                  /\ r.target = [populated |-> TRUE, val |-> arg.val]

\* The value read at q in a tree: the node the walk reaches, or its failure.
ReadAt(tree, q) == terraformValueAtPath(tree, q)

\* C6 as stated: SetAttribute(p, v) leaves the value read at every path q
\* that is neither p nor a descendant of p as it was.
C6_OnlyPathAndDescendantsChange ==
  op = "SetAttribute"
    => \A q \in Paths :
         (q # arg.path /\ ~IsPrefix(arg.path, q))
           => ReadAt(Raw, q) = ReadAt(prev, q)

\* C6, amended: SetAttribute(p, v) leaves the value read at every path q
\* that is neither p, nor a descendant of p, nor an ancestor of p as it was,
\* whether or not the call succeeded.
C6_NodesOffThePathUnchanged ==
  op = "SetAttribute"
    => \A q \in Paths :
         (q # arg.path /\ ~IsPrefix(arg.path, q) /\ ~IsPrefix(q, arg.path))
           => ReadAt(Raw, q) = ReadAt(prev, q)

\* A SetAttribute at name replaced the node while obj.inner held a string.
C6_Witness ==
  /\ op = "SetAttribute"
  /\ arg.path = <<"name">>
  /\ ReadAt(Raw, <<"name">>) # ReadAt(prev, <<"name">>)
  /\ ReadAt(prev, <<"obj", "inner">>).ok
  /\ ReadAt(prev, <<"obj", "inner">>).val.st = "known"

\* The Validate hook that transformFunc runs reported an Error.
TransformValidateFailed ==
  /\ op = "SetAttribute"
  /\ Ran("transformFunc")
  /\ Ran("Validate")
  /\ Failed(arg.vd2)

\* The Validate hook that FromValue runs reported an Error.
FromValueValidateFailed ==
  /\ op = "SetAttribute"
  /\ Resolves(arg.path)
  /\ HasError(Written.diags)
  /\ Written.diags[Len(Written.diags)].summary = "Validate"

\* C7: when Validate reports an Error for the new wire value during
\* SetAttribute(p, v), the node at p stays in place, the whole tree is as
\* before, and the returned diagnostics hold that Error.
C7_ValidateErrorKeepsOldNode ==
  (TransformValidateFailed \/ FromValueValidateFailed)
    => /\ Raw = prev
       /\ ReadAt(Raw, arg.path) = ReadAt(prev, arg.path)
       /\ \E i \in Errors(diags) :
            diags[i] = AttributeDiagnostic("Error", arg.path, "Validate", "validate")

\* The hook failed on a value that differs from the node in place.
C7_Witness ==
  /\ TransformValidateFailed
  /\ ReadAt(prev, arg.path).val # WrittenWire
  /\ ReadAt(prev, arg.path).val.st = "known"

\* The wire value GetAttribute found at its path, and its framework value.
ReadWire == terraformValueAtPath(prev, arg.path).val

ReadValue == ValueFromTerraform(TypeAt(arg.path), ReadWire)

\* C8: on a read, Validate runs before the conversion from wire form; when
\* it reports an Error, ValueFromTerraform and the population of the target
\* do not happen, getAttributeValue returns no value, and the diagnostics
\* are exactly Validate's, attributed to the requested path.
C8_ValidateErrorSkipsConversion ==
  op = "GetAttribute"
    => /\ (Ran("ValueFromTerraform") /\ TypeAt(arg.path).validate)
            => trace[1] = "Validate"
       /\ (Ran("Validate") /\ Failed(arg.vd))
            => /\ ~Ran("ValueFromTerraform")
               /\ ~Ran("ValueAs")
               /\ target = ZeroTarget
               /\ getAttributeValue(prev, Schema, arg.path, arg.vd, arg.convOk).val.isNil
               /\ Len(diags) = Len(arg.vd)
               /\ \A i \in 1..Len(diags) :
                    diags[i] = AttributeDiagnostic(arg.vd[i], arg.path, "Validate", "validate")

\* Validate failed on a stored string that the target could have taken.
C8_Witness ==
  /\ op = "GetAttribute"
  /\ Ran("Validate")
  /\ Failed(arg.vd)
  /\ ReadWire.st = "known"
  /\ arg.tgt = "string"

\* C9: when Validate reports only Warnings (and the conversion succeeds into
\* a target the value can populate, its own hooks reporting nothing),
\* GetAttribute converts the value into the target and returns exactly those
\* Warnings, attributed to the requested path, and no Error.
C9_ValidateWarningStillReads ==
  (/\ op = "GetAttribute"
   /\ Ran("Validate")
   /\ arg.vd = <<"Warning">>
   /\ arg.convOk
   /\ arg.asVd = <<>>
   /\ Populates(ReadValue, arg.tgt))
    => /\ Ran("ValueFromTerraform")
       /\ target.populated
       /\ arg.tgt = "string" => target.val = HString(ReadWire.v)
       /\ arg.tgt = "attr" => target.val = HAttr(ReadValue)
       /\ diags = <<AttributeDiagnostic("Warning", arg.path, "Validate", "validate")>>
       /\ ~HasError(diags)

\* A read into a string with a Warning from Validate.
C9_Witness ==
  /\ op = "GetAttribute"
  /\ Ran("Validate")
  /\ arg.vd = <<"Warning">>
  /\ arg.asVd = <<>>
  /\ arg.tgt = "string"
  /\ target.populated

\* C10: GetAttribute at a path whose stored value cannot populate the target
\* returns exactly one Error diagnostic, which carries the requested path,
\* and leaves the target at its zero value.
C10_IncompatibleTargetIsOneError ==
  (op = "GetAttribute" /\ Ran("ValueAs") /\ ~Populates(ReadValue, arg.tgt))
    => /\ Cardinality(Errors(diags)) = 1
       /\ \A i \in Errors(diags) : diags[i].attributed /\ diags[i].path = arg.path
       /\ target = ZeroTarget

\* The stored string of name read into a bool.
C10_Witness ==
  /\ op = "GetAttribute"
  /\ arg.path = <<"name">>
  /\ arg.tgt = "bool"
  /\ Ran("ValueAs")
  /\ ReadWire.st = "known"

\* The diagnostics getAttributeValue handed to the last GetAttribute, and
\* those ValueAs reported to it, before they were given a path.
ReadDiags == getAttributeValue(prev, Schema, arg.path, arg.vd, arg.convOk).diags

ConversionDiags == ValueAs(ReadValue, arg.tgt, arg.asVd).diags

C12_ReadsChangeNothing ==
  op \in {"Get", "GetAttribute"}
    => /\ Raw = prev
       /\ Schema = TestSchema

\* A read of a known tree that returned an Error: GetAttribute past a step
\* the tree cannot take.
C12_Witness ==
  /\ op = "GetAttribute"
  /\ HasError(diags)
  /\ Raw.st = "known"
  /\ Resolves(arg.path)
  /\ ~terraformValueAtPath(Raw, arg.path).ok

\* C13: after RemoveResource, from a root-null or a root-known tree and
\* after any calls before it, the tree is the null value of the schema's
\* top-level type and the Schema is unchanged; a RemoveResource in that
\* state leaves the same tree.
C13_RemoveResourceLeavesRootNull ==
  op = "RemoveResource"
    => /\ Raw.st = "null"
       /\ Raw.ty = [k |-> "Object", attrs |-> DOMAIN Schema]
       /\ Schema = TestSchema
       /\ RemoveResource(Schema) = Raw
       /\ IsNull(prev) => Raw = prev

\* RemoveResource on a root-known tree holding a string.
C13_Witness ==
  /\ op = "RemoveResource"
  /\ prev.st = "known"
  /\ prev.v.name.st = "known"
  /\ IsNull(Raw)

WarningsOnlySetAttribute ==
  /\ CleanSetAttribute
  /\ arg.vd = <<"Warning">>

\* C15: Warnings never block a write: when FromValue and Validate report
\* only Warnings during SetAttribute(p, v), the new value is installed at p
\* and the returned diagnostics hold those Warnings and no Error.
C15_WarningsNeverBlockAWrite ==
  WarningsOnlySetAttribute
    => /\ ReadAt(Raw, arg.path) = [ok |-> TRUE, val |-> WrittenWire]
       /\ \A i \in 1..Len(Written.diags) :
            \E j \in 1..Len(diags) : diags[j] = Written.diags[i]
       /\ ~HasError(diags)

\* C15 holds where the tree already holds a node at p: the value is
\* installed and the diagnostics are FromValue's Warnings followed by those
\* of the Validate that transformFunc runs.
C15_HoldsWhereTheNodeExists ==
  (WarningsOnlySetAttribute /\ ReadAt(prev, arg.path).ok)
    => /\ ReadAt(Raw, arg.path) = [ok |-> TRUE, val |-> WrittenWire]
       /\ diags = Written.diags \o Validate(arg.vd2, arg.path)
       /\ Len(Written.diags) > 0
       /\ ~HasError(diags)

\* C16: a path the schema does not resolve is rejected before the tree is
\* consulted: GetAttribute and SetAttribute at such a path return exactly
\* one diagnostic, the Error of the schema's resolution attributed to the
\* path, on a root-known and on a root-null tree alike; no hook runs, the
\* target is not populated and the tree is unchanged.
C16_UnresolvedPathIsOneError ==
  (op \in {"GetAttribute", "SetAttribute"} /\ ~Resolves(arg.path))
    => /\ Len(diags) = 1
       /\ diags[1].sev = "Error"
       /\ diags[1].attributed
       /\ diags[1].path = arg.path
       /\ diags[1].summary = (IF op = "GetAttribute" THEN "State Read Error"
                                                     ELSE "State Write Error")
       /\ diags[1].detail = "schema"
       /\ trace = <<>>
       /\ target = ZeroTarget
       /\ Raw = prev

\* A read at an undeclared attribute of a root-null tree.
C16_Witness ==
  /\ op = "GetAttribute"
  /\ ~Resolves(arg.path)
  /\ IsNull(prev)
  /\ HasError(diags)

\* What the Validate hook of the last read reported, if the type has one.
ValidateVerdict == IF TypeAt(arg.path).validate THEN arg.vd ELSE <<>>

Siblings(p, q) ==
  /\ p # q
  /\ Len(p) = Len(q)
  /\ SubSeq(p, 1, Len(p) - 1) = SubSeq(q, 1, Len(q) - 1)

\* The tree after SetAttribute(q, w) with hook outcomes h on a tree.
TreeAfter(tree, q, w, h) ==
  SetAttribute(tree, Schema, q, w, h.vd, h.toTfOk, h.vd2).raw

\* The last call, SetAttribute(p, v) on the tree prev, commutes with
\* SetAttribute(q, w): p then q and q then p leave the same tree, which
\* holds v at p and w at q.
CommutesWith(q, w, h) ==
  LET wq == FromValue(TypeAt(q), w, q, h.vd)
      pq == TreeAfter(Raw, q, w, h)
      qp == TreeAfter(TreeAfter(prev, q, w, h), arg.path, arg.val, arg)
  IN  /\ pq = qp
      /\ ReadAt(pq, arg.path) = [ok |-> TRUE, val |-> WrittenWire]
      /\ ReadAt(pq, q) =
           [ok |-> TRUE,
            val |-> NewValue(TerraformType(TypeAt(q)), ToTerraformValue(wq.av))]

\* The calls SetAttribute(q, w) at a sibling q of the last call's path, with
\* a value that fits and hooks that report no Error.
SiblingCalls ==
  {c \in [q : {q \in Paths \cup PairPaths : Resolves(q) /\ Siblings(arg.path, q)},
          w : LeafHosts,
          h : WriteHooks(StringTypeWithValidate)] :
     /\ c.h \in WriteHooks(TypeAt(c.q))
     /\ FromValue(TypeAt(c.q), c.w, c.q, c.h.vd).ok
     /\ c.h.toTfOk
     /\ ~Failed(c.h.vd2)}

\* C20: serialized SetAttribute calls at two distinct sibling paths of a
\* root-known State commute: with values that fit the schema and pass
\* validation, either order leaves the same tree, in which both paths hold
\* the values supplied.
C20_SiblingWritesCommute ==
  (CleanSetAttribute /\ ~IsNull(prev))
    => \A c \in SiblingCalls : CommutesWith(c.q, c.w, c.h)

\* C20 holds where the tree holds the parent of the two paths as a known
\* object, as it does for the attributes of a root-known document.
C20_HoldsWhereTheNodesExist ==
  (CleanSetAttribute /\ ReadAt(prev, arg.path).ok)
    => \A c \in SiblingCalls : CommutesWith(c.q, c.w, c.h)

\* C18: the tree is copy-on-write: through the reference a reader obtained
\* before a Set, SetAttribute or RemoveResource it reads, at every path,
\* what it read when it obtained the reference; the State itself reads its
\* current tree.
C18_ReaderSeesTheTreeItCopied ==
  /\ Raw = cells[ref]
  /\ reader.holds
       => /\ cells[reader.ref] = reader.seen
          /\ \A q \in Paths : ReadAt(cells[reader.ref], q) = ReadAt(reader.seen, q)

\* A write changed what the State reads at a path while the reader holds
\* the reference it obtained before.
C18_Witness ==
  /\ reader.holds
  /\ reader.ref # ref
  /\ \E q \in Paths :
       /\ ReadAt(reader.seen, q).ok
       /\ ReadAt(Raw, q) # ReadAt(reader.seen, q)

\* The wire value a caller's SetAttribute places at its path.
WireOf(w) ==
  NewValue(TerraformType(TypeAt(writers[w].path)),
           ToTerraformValue(FromValue(TypeAt(writers[w].path), writers[w].val,
                                      writers[w].path, <<>>).av))

\* Both callers have assigned; their paths are distinct, neither is below
\* the other, and the tree they started from holds a node at both.
TwoWritesMade ==
  /\ Len(wrote) = 2
  /\ ~IsPrefix(writers[wrote[1]].path, writers[wrote[2]].path)
  /\ ~IsPrefix(writers[wrote[2]].path, writers[wrote[1]].path)
  /\ ReadAt(prev, writers[wrote[1]].path).ok
  /\ ReadAt(prev, writers[wrote[2]].path).ok

\* C19: the State's tree is not synchronized: SetAttribute reads the tree,
\* transforms it and assigns it as separate steps, so of two callers at
\* distinct paths the one that assigns last, when it read the tree before
\* the other assigned, leaves a tree that lacks the other's write: the
\* node at the other's path is as it was before both.  When it read after
\* the other assigned, the tree holds both writes.
C19_UnserializedWritersLoseAWrite ==
  TwoWritesMade
    => /\ ReadAt(Raw, writers[wrote[2]].path).val = WireOf(wrote[2])
       /\ writers[wrote[2]].stale
            => ReadAt(Raw, writers[wrote[1]].path) = ReadAt(prev, writers[wrote[1]].path)
       /\ ~writers[wrote[2]].stale
            => ReadAt(Raw, writers[wrote[1]].path).val = WireOf(wrote[1])

\* The two calls interleaved and the final tree lacks the first write,
\* which had changed the node at its path.
C19_Witness ==
  /\ TwoWritesMade
  /\ writers[wrote[2]].stale
  /\ ReadAt(prev, writers[wrote[1]].path).val # WireOf(wrote[1])
  /\ ReadAt(Raw, writers[wrote[1]].path).val # WireOf(wrote[1])
  /\ ReadAt(Raw, writers[wrote[2]].path).val = WireOf(wrote[2])

====
